---- MODULE Spec2Model ----
(***************************************************************************)
(* Model of rspamd/dkim/config.go: the lexer, the recursive-descent parser *)
(* parseRspamdConfig, the typed projections ParseDKIMConf and              *)
(* ParseDKIMSigningConf, and parseSignHeaders.                             *)
(*                                                                         *)
(* A rune is a one-character string; a Go string is a sequence of runes.   *)
(* A Go map is a function; a nil pointer / nil map / nil error is the      *)
(* empty sequence and a set one is a one-element sequence.                 *)
(***************************************************************************)
EXTENDS Integers, Sequences, FiniteSets, TLC

\* ------------------------------------------------------------------ bounds

\* Reads the streaming reader delivers before it reports end of input.
MaxChunks == 8
\* Longest identifier the reader is allowed to extend across two reads.
MaxIdent == 2
\* Chunks following the fixed prefix of a buffered (in-memory) input.
MaxBatch == 3
\* Domain entries a written-out signing config holds.
MaxEntries == 2
\* top-level assignments of a written-out config
MaxTop == 3
\* tokens after the prefix of a token-by-token input
MaxTok == 3
\* runes after the opening quote of a string input
MaxStr == 4
\* reads the reader delivers in the runs checked for termination
MaxLive == 6
\* Pieces a raw sign_headers value is made of.
MaxHdr == 5

\* ------------------------------------------------------------------- runes

Lower == <<"a","b","c","d","e","f","g","h","i","j","k","l","m",
           "n","o","p","q","r","s","t","u","v","w","x","y","z">>
Upper == <<"A","B","C","D","E","F","G","H","I","J","K","L","M",
           "N","O","P","Q","R","S","T","U","V","W","X","Y","Z">>
Digits == {"0","1","2","3","4","5","6","7","8","9"}

Range(f) == {f[i] : i \in DOMAIN f}

\* unicode.IsLetter, on the runes of the model
IsLetter(r) == r \in Range(Lower) \cup Range(Upper)
\* unicode.IsDigit
IsDigit(r) == r \in Digits
\* unicode.IsSpace
IsSpace(r) == r \in {" ", "\n", "\t", "\r"}

isIdentStart(r) == IsLetter(r) \/ r = "_" \/ r = "$"

isIdentPart(r) ==
  IsLetter(r) \/ IsDigit(r) \/ r = "_" \/ r = "-" \/ r = "." \/ r = "/" \/ r = "$"

\* strings.ToLower, rune by rune
LowerRune(r) ==
  IF r \in Range(Upper) THEN Lower[CHOOSE i \in DOMAIN Upper : Upper[i] = r] ELSE r
ToLower(s) == [i \in DOMAIN s |-> LowerRune(s[i])]

\* -------------------------------------------------------------- Go values

Nil == <<>>
Ptr(v) == <<v>>

\* m[k] of a Go map[string]string: the zero value when the key is missing
Get(m, k) == IF k \in DOMAIN m THEN m[k] ELSE <<>>
\* m[k] = v
Put(m, k, v) == [x \in (DOMAIN m) \cup {k} |-> IF x = k THEN v ELSE m[x]]
EmptyMap == [x \in {} |-> <<>>]

\* errors: what failed, and the text the message carries
Err(kind, key, val) == [kind |-> kind, key |-> key, val |-> val]
NoErr == Err("nil", <<>>, <<>>)
\* err == io.EOF, returned by ReadRune at the end of the stream
ErrEOF == Err("EOF", <<>>, <<>>)

\* ------------------------------------------------------------------ tokens

tokenEOF == "tokenEOF"
tokenIdent == "tokenIdent"
tokenString == "tokenString"
tokenLBrace == "tokenLBrace"
tokenRBrace == "tokenRBrace"
tokenEqual == "tokenEqual"
tokenSemicolon == "tokenSemicolon"

token(typ, val) == [typ |-> typ, val |-> val]
\* token{}: the zero token returned beside an error
ZeroToken == token(tokenEOF, <<>>)

\* ------------------------------------------------------------------- lexer
\* The lexer reads the runes `s` the reader has available; `closed` says the
\* reader is at end of input after them.  A ReadRune with no rune available
\* and the reader still open blocks: the operator reports "wait" and the
\* place it waits at.

\* variant: the comment ends at a carriage return only
RECURSIVE skipLineCR(_, _)
skipLineCR(s, closed) ==
  IF s = <<>>
    THEN [st |-> IF closed THEN "ok" ELSE "wait", rest |-> <<>>]
    ELSE IF Head(s) = "\r"
      THEN [st |-> "ok", rest |-> Tail(s)]
      ELSE skipLineCR(Tail(s), closed)

\* skipLine: discard up to and including the newline; EOF ends it cleanly
RECURSIVE skipLine(_, _)
skipLine(s, closed) ==
  IF s = <<>>
    THEN [st |-> IF closed THEN "ok" ELSE "wait", rest |-> <<>>]
    ELSE IF Head(s) = "\n"
      THEN [st |-> "ok", rest |-> Tail(s)]
      ELSE skipLine(Tail(s), closed)

\* readIdent: extend l.buf while isIdentPart; the first other rune is unread
RECURSIVE readIdent(_, _, _)
readIdent(buf, s, closed) ==
  IF s = <<>>
    THEN [st |-> IF closed THEN "ok" ELSE "wait", buf |-> buf, rest |-> <<>>]
    ELSE IF isIdentPart(Head(s))
      THEN readIdent(Append(buf, Head(s)), Tail(s), closed)
      ELSE [st |-> "ok", buf |-> buf, rest |-> s]

\* variant: \n is read as the newline it names in other languages
RECURSIVE readStringNewline(_, _, _, _)
readStringNewline(b, esc, s, closed) ==
  IF s = <<>>
    THEN [st |-> IF closed THEN "err" ELSE "wait", b |-> b, esc |-> esc, rest |-> <<>>]
    ELSE IF esc
      THEN readStringNewline(Append(b, IF Head(s) = "n" THEN "\n" ELSE Head(s)), FALSE,
                             Tail(s), closed)
      ELSE IF Head(s) = "\""
        THEN [st |-> "ok", b |-> b, esc |-> FALSE, rest |-> Tail(s)]
        ELSE IF Head(s) = "\\"
          THEN readStringNewline(b, TRUE, Tail(s), closed)
          ELSE readStringNewline(Append(b, Head(s)), FALSE, Tail(s), closed)

\* readString: copy up to the first unescaped quote; a backslash copies the
\* rune after it; every ReadRune error, io.EOF included, is returned
RECURSIVE readString(_, _, _, _)
readString(b, esc, s, closed) ==
  IF s = <<>>
    THEN [st |-> IF closed THEN "err" ELSE "wait", b |-> b, esc |-> esc, rest |-> <<>>]
    ELSE IF esc
      THEN readString(Append(b, Head(s)), FALSE, Tail(s), closed)
      ELSE IF Head(s) = "\""
        THEN [st |-> "ok", b |-> b, esc |-> FALSE, rest |-> Tail(s)]
        ELSE IF Head(s) = "\\"
          THEN readString(b, TRUE, Tail(s), closed)
          ELSE readString(Append(b, Head(s)), FALSE, Tail(s), closed)

\* struct lexer: the pushed-back token, the identifier / string buffer, and
\* the place inside next() where a blocked ReadRune waits
Lexer(peek, buf, at) == [peek |-> peek, buf |-> buf, at |-> at]
newLexer == Lexer(Nil, <<>>, "idle")

LexTok(tok, rest) ==
  [st |-> "tok", tok |-> tok, err |-> NoErr, l |-> newLexer, rest |-> rest]
LexErr(err, rest) ==
  [st |-> "err", tok |-> ZeroToken, err |-> err, l |-> newLexer, rest |-> rest]
LexWait(buf, at) ==
  [st |-> "wait", tok |-> ZeroToken, err |-> NoErr, l |-> Lexer(Nil, buf, at), rest |-> <<>>]

identFrom(buf, s, closed) ==
  LET k == readIdent(buf, s, closed) IN
  IF k.st = "wait" THEN LexWait(k.buf, "readIdent")
  ELSE LexTok(token(tokenIdent, k.buf), k.rest)

stringFrom(b, esc, s, closed) ==
  LET k == readString(b, esc, s, closed) IN
  IF k.st = "wait" THEN LexWait(k.b, IF k.esc THEN "readEscape" ELSE "readString")
  ELSE IF k.st = "err" THEN LexErr(ErrEOF, k.rest)
  ELSE LexTok(token(tokenString, k.b), k.rest)

\* the for loop of lexer.next
RECURSIVE scan(_, _)
scan(s, closed) ==
  IF s = <<>>
    THEN IF closed THEN LexTok(token(tokenEOF, <<>>), <<>>) ELSE LexWait(<<>>, "idle")
    ELSE LET r == Head(s)
             rs == Tail(s)
         IN IF r = "#"
              THEN LET k == skipLine(rs, closed) IN
                   IF k.st = "wait" THEN LexWait(<<>>, "skipLine") ELSE scan(k.rest, closed)
            ELSE IF IsSpace(r) THEN scan(rs, closed)
            ELSE IF r = "{" THEN LexTok(token(tokenLBrace, <<>>), rs)
            ELSE IF r = "}" THEN LexTok(token(tokenRBrace, <<>>), rs)
            ELSE IF r = "=" THEN LexTok(token(tokenEqual, <<>>), rs)
            ELSE IF r = ";" THEN LexTok(token(tokenSemicolon, <<>>), rs)
            ELSE IF r = "\"" THEN stringFrom(<<>>, FALSE, rs, closed)
            ELSE IF isIdentStart(r) THEN identFrom(<<r>>, rs, closed)
            ELSE LexErr(Err("unexpected character", <<>>, <<r>>), rs)

\* lexer.next: the pushed-back token if there is one, else the next token of
\* the stream (resuming where a blocked read left it)
next(l, s, closed) ==
  IF l.peek # Nil
    THEN [st |-> "tok", tok |-> l.peek[1], err |-> NoErr, l |-> newLexer, rest |-> s]
  ELSE IF l.at = "idle" THEN scan(s, closed)
  ELSE IF l.at = "skipLine"
    THEN LET k == skipLine(s, closed) IN
         IF k.st = "wait" THEN LexWait(<<>>, "skipLine") ELSE scan(k.rest, closed)
  ELSE IF l.at = "readIdent" THEN identFrom(l.buf, s, closed)
  ELSE stringFrom(l.buf, l.at = "readEscape", s, closed)

\* variant: the token handed to unread is lost
unreadNothing(l, tok) == l

\* lexer.unread
unread(l, tok) == [l EXCEPT !.peek = Ptr(tok)]

\* ------------------------------------------------------------------ parser

VARIABLES
  pc,           \* where the call stands: a place in parseRspamdConfig /
                \* parseDomainBlock, "parsed" once it returned, "done"
  l,            \* the lexer
  stream,       \* runes the reader holds and the lexer has not read
  closed,       \* the reader is at end of input after `stream`
  key,          \* parseRspamdConfig: key
  domainKey,    \* parseDomainBlock: domainKey
  t,            \* parseDomainBlock: t, the key token of a rule assignment
  rule,         \* parseDomainBlock: rule
  assignments,  \* parseRspamdConfig: assignments
  domains,      \* parseRspamdConfig: domains
  ret,          \* what parseRspamdConfig returned
  out,          \* what ParseDKIMConf / ParseDKIMSigningConf returned
  input,        \* the whole text of a buffered reader (empty when streaming)
  nfed,         \* reads the streaming reader has delivered
  vocab,        \* the texts the streaming reader delivers
  shape,        \* the domain entries a buffered input was written from
  hdr           \* a call of parseSignHeaders: raw, parts left, out, place

vars == <<pc, l, stream, closed, key, domainKey, t, rule, assignments, domains,
          ret, out, input, nfed, vocab, shape, hdr>>

\* the state as one value, so that a step is a function of it
St ==
  [pc |-> pc, l |-> l, stream |-> stream, closed |-> closed, key |-> key,
   domainKey |-> domainKey, t |-> t, rule |-> rule, assignments |-> assignments,
   domains |-> domains, ret |-> ret]

Apply(n) ==
  /\ pc' = n.pc
  /\ l' = n.l
  /\ stream' = n.stream
  /\ closed' = n.closed
  /\ key' = n.key
  /\ domainKey' = n.domainKey
  /\ t' = n.t
  /\ rule' = n.rule
  /\ assignments' = n.assignments
  /\ domains' = n.domains
  /\ ret' = n.ret

Apply0(n) ==
  /\ pc = n.pc
  /\ l = n.l
  /\ stream = n.stream
  /\ closed = n.closed
  /\ key = n.key
  /\ domainKey = n.domainKey
  /\ t = n.t
  /\ rule = n.rule
  /\ assignments = n.assignments
  /\ domains = n.domains
  /\ ret = n.ret

\* the state parseRspamdConfig starts in, on a reader holding `s`
Start(s, cl) ==
  [pc |-> "top", l |-> newLexer, stream |-> s, closed |-> cl, key |-> <<>>,
   domainKey |-> <<>>, t |-> ZeroToken, rule |-> EmptyMap,
   assignments |-> EmptyMap, domains |-> EmptyMap,
   ret |-> [assignments |-> Nil, domains |-> Nil, err |-> NoErr]]

\* l.next() in state s
NextTok(s) == next(s.l, s.stream, s.closed)

\* the lexer has moved on by the call `o`
Lexed(s, o) == [s EXCEPT !.l = o.l, !.stream = o.rest]

\* a return that hands back the maps built so far along with the error
FailPartial(s, err) ==
  [s EXCEPT !.pc = "parsed",
            !.ret = [assignments |-> Ptr(s.assignments), domains |-> Ptr(s.domains),
                     err |-> err]]

\* return nil, nil, err
Fail(s, err) ==
  [s EXCEPT !.pc = "parsed",
            !.ret = [assignments |-> Nil, domains |-> Nil, err |-> err]]

\* expect: the error, nil when the next token has the type
expect(o, typ) ==
  IF o.st = "err" THEN o.err
  ELSE IF o.tok.typ # typ THEN Err("expected token", <<typ>>, <<o.tok.typ>>)
  ELSE NoErr

\* variant: a ';' where the value should be counts as an empty value
parseValueLax(o) ==
  IF o.st = "err" THEN [val |-> <<>>, err |-> o.err]
  ELSE IF o.tok.typ \in {tokenIdent, tokenString, tokenSemicolon}
    THEN [val |-> o.tok.val, err |-> NoErr]
  ELSE [val |-> <<>>, err |-> Err("unexpected value token", <<>>, <<o.tok.typ>>)]

\* parseValue
parseValue(o) ==
  IF o.st = "err" THEN [val |-> <<>>, err |-> o.err]
  ELSE IF o.tok.typ \in {tokenIdent, tokenString} THEN [val |-> o.tok.val, err |-> NoErr]
  ELSE [val |-> <<>>, err |-> Err("unexpected value token", <<>>, <<o.tok.typ>>)]

\* variant: a token of another type is not pushed back
tryConsumeNoUnread(o, typ) ==
  IF o.st = "err" THEN [ok |-> FALSE, err |-> o.err, l |-> o.l]
  ELSE [ok |-> o.tok.typ = typ, err |-> NoErr, l |-> o.l]

\* tryConsume: (consumed, err) and the lexer after it; a token of another
\* type is pushed back, an error of next() is returned with nothing pushed back
tryConsume(o, typ) ==
  IF o.st = "err" THEN [ok |-> FALSE, err |-> o.err, l |-> o.l]
  ELSE IF o.tok.typ = typ THEN [ok |-> TRUE, err |-> NoErr, l |-> o.l]
  ELSE [ok |-> FALSE, err |-> NoErr, l |-> unread(o.l, o.tok)]

\* variant: the optional ';' is looked for again until it is there
DropSemicolonAgain(s, to) ==
  LET o == NextTok(s)
      c == tryConsume(o, tokenSemicolon)
  IN [Lexed(s, o) EXCEPT !.l = c.l, !.pc = IF c.ok \/ o.st = "err" THEN to ELSE s.pc]

\* `_, _ = tryConsume(l, tokenSemicolon)`: both results dropped
DropSemicolon(s, to) ==
  LET o == NextTok(s)
      c == tryConsume(o, tokenSemicolon)
  IN [Lexed(s, o) EXCEPT !.l = c.l, !.pc = to]

\* `if err := expect(l, typ); err != nil { return err }`
ExpectStep(s, typ, to) ==
  LET o == NextTok(s)
      e == expect(o, typ)
  IN IF e # NoErr THEN Fail(Lexed(s, o), e) ELSE [Lexed(s, o) EXCEPT !.pc = to]

\* variant: no keyword, every identifier is the key of an assignment
topStepNoKeyword(s) ==
  LET o == NextTok(s)
      n == Lexed(s, o)
  IN IF o.st = "err" THEN Fail(n, o.err)
     ELSE IF o.tok.typ = tokenEOF
       THEN [n EXCEPT !.pc = "parsed",
                      !.ret = [assignments |-> Ptr(s.assignments),
                               domains |-> Ptr(s.domains), err |-> NoErr]]
     ELSE IF o.tok.typ = tokenIdent
       THEN [n EXCEPT !.pc = "top_eq", !.key = o.tok.val]
     ELSE Fail(n, Err("unexpected token", <<>>, <<o.tok.typ>>))

\* parseRspamdConfig: the head of the loop, up to the key of an assignment
topStep(s) ==
  LET o == NextTok(s)
      n == Lexed(s, o)
  IN IF o.st = "err" THEN Fail(n, o.err)
     ELSE IF o.tok.typ = tokenEOF
       THEN [n EXCEPT !.pc = "parsed",
                      !.ret = [assignments |-> Ptr(s.assignments),
                               domains |-> Ptr(s.domains), err |-> NoErr]]
     ELSE IF o.tok.typ = tokenIdent
       THEN IF o.tok.val = <<"d","o","m","a","i","n">>
              THEN [n EXCEPT !.pc = "dom_open"]
              ELSE [n EXCEPT !.pc = "top_eq", !.key = o.tok.val]
     ELSE Fail(n, Err("unexpected token", <<>>, <<o.tok.typ>>))

\* variant: a key that is already in the map keeps its first value
topValueStepFirstWins(s) ==
  LET o == NextTok(s)
      v == parseValue(o)
      n == Lexed(s, o)
  IN IF v.err # NoErr THEN Fail(n, v.err)
     ELSE [n EXCEPT !.pc = "top_semi",
                    !.assignments = IF s.key \in DOMAIN s.assignments THEN s.assignments
                                    ELSE Put(s.assignments, s.key, v.val)]

\* parseRspamdConfig: val, err := parseValue(l); assignments[key] = val
topValueStep(s) ==
  LET o == NextTok(s)
      v == parseValue(o)
      n == Lexed(s, o)
  IN IF v.err # NoErr THEN Fail(n, v.err)
     ELSE [n EXCEPT !.pc = "top_semi", !.assignments = Put(s.assignments, s.key, v.val)]

\* parseDomainBlock: the head of the outer loop
domainStep(s) ==
  LET o == NextTok(s)
      n == Lexed(s, o)
  IN IF o.st = "err" THEN Fail(n, o.err)
     ELSE IF o.tok.typ = tokenRBrace THEN [n EXCEPT !.pc = "dom_semi"]
     ELSE IF o.tok.typ \in {tokenIdent, tokenString}
       THEN [n EXCEPT !.pc = "ent_open", !.domainKey = o.tok.val]
     ELSE Fail(n, Err("unexpected token in domain block", <<>>, <<o.tok.typ>>))

\* variant: the rule of a label seen before starts from its earlier map
entryOpenStepMerge(s) ==
  LET n == ExpectStep(s, tokenLBrace, "rule")
  IN IF n.pc = "rule" THEN [n EXCEPT !.rule = Get(s.domains, s.domainKey)] ELSE n

\* parseDomainBlock: expect '{' after the label; rule := make(map)
entryOpenStep(s) ==
  LET n == ExpectStep(s, tokenLBrace, "rule")
  IN IF n.pc = "rule" THEN [n EXCEPT !.rule = EmptyMap] ELSE n

\* parseDomainBlock: the head of the inner loop
ruleStep(s) ==
  LET o == NextTok(s)
      n == Lexed(s, o)
  IN IF o.st = "err" THEN Fail(n, o.err)
     ELSE IF o.tok.typ = tokenRBrace THEN [n EXCEPT !.pc = "ent_semi"]
     ELSE IF o.tok.typ # tokenIdent
       THEN Fail(n, Err("unexpected token in domain rule", <<>>, <<o.tok.typ>>))
     ELSE [n EXCEPT !.pc = "rule_eq", !.t = o.tok]

\* parseDomainBlock: val, err := parseValue(l); rule[t.val] = val
ruleValueStep(s) ==
  LET o == NextTok(s)
      v == parseValue(o)
      n == Lexed(s, o)
  IN IF v.err # NoErr THEN Fail(n, v.err)
     ELSE [n EXCEPT !.pc = "rule_semi", !.rule = Put(s.rule, s.t.val, v.val)]

\* parseDomainBlock: the closing brace of an entry: the optional ';', break,
\* domains[domainKey] = rule
entryCloseStep(s) ==
  LET n == DropSemicolon(s, "dom")
  IN [n EXCEPT !.domains = Put(s.domains, s.domainKey, s.rule)]

\* one step of parseRspamdConfig from the place s.pc
Step(s) ==
  CASE s.pc = "top" -> topStep(s)
    [] s.pc = "top_eq" -> ExpectStep(s, tokenEqual, "top_val")
    [] s.pc = "top_val" -> topValueStep(s)
    [] s.pc = "top_semi" -> DropSemicolon(s, "top")
    [] s.pc = "dom_open" -> ExpectStep(s, tokenLBrace, "dom")
    [] s.pc = "dom" -> domainStep(s)
    [] s.pc = "dom_semi" -> DropSemicolon(s, "top")
    [] s.pc = "ent_open" -> entryOpenStep(s)
    [] s.pc = "rule" -> ruleStep(s)
    [] s.pc = "rule_eq" -> ExpectStep(s, tokenEqual, "rule_val")
    [] s.pc = "rule_val" -> ruleValueStep(s)
    [] s.pc = "rule_semi" -> DropSemicolon(s, "rule")
    [] s.pc = "ent_semi" -> entryCloseStep(s)
    [] OTHER -> s

Running(s) == s.pc \notin {"parsed", "done"}
\* the next call of l.next() returns without blocking in a read
Ready(s) == Running(s) /\ NextTok(s).st # "wait"

\* parseRspamdConfig on a reader that never blocks, run to its return
RECURSIVE RunParse(_)
RunParse(s) == IF Running(s) THEN RunParse(Step(s)) ELSE s.ret

parseRspamdConfig(text) == RunParse(Start(text, TRUE))

\* ------------------------------------------------------- parseSignHeaders

\* strings.TrimSpace
RECURSIVE TrimLeft(_)
TrimLeft(s) == IF s # <<>> /\ IsSpace(Head(s)) THEN TrimLeft(Tail(s)) ELSE s
RECURSIVE TrimRight(_)
TrimRight(s) ==
  IF s # <<>> /\ IsSpace(s[Len(s)]) THEN TrimRight(SubSeq(s, 1, Len(s) - 1)) ELSE s
TrimSpace(s) == TrimRight(TrimLeft(s))

\* strings.HasPrefix
HasPrefix(s, p) == Len(s) >= Len(p) /\ SubSeq(s, 1, Len(p)) = p

\* h[n:]
From(h, n) == SubSeq(h, n + 1, Len(h))

\* strings.Split(s, sep) for a one-rune separator: always at least one part
RECURSIVE SplitAcc(_, _, _)
SplitAcc(s, sep, cur) ==
  IF s = <<>> THEN <<cur>>
  ELSE IF Head(s) = sep THEN <<cur>> \o SplitAcc(Tail(s), sep, <<>>)
  ELSE SplitAcc(Tail(s), sep, Append(cur, Head(s)))
Split(s, sep) == SplitAcc(s, sep, <<>>)

SignHeader(name, o, x) == [Name |-> name, Oversigned |-> o, OptionalOversigned |-> x]

MarkO == <<"(", "o", ")">>
MarkX == <<"(", "x", ")">>

\* variant: two independent ifs instead of if / else if, so stacked markers
\* set both flags
stripMarkerBothIfs(h) ==
  LET a == IF HasPrefix(h, MarkO) THEN TrimSpace(From(h, 3)) ELSE h
      b == IF HasPrefix(a, MarkX) THEN TrimSpace(From(a, 3)) ELSE a
  IN [o |-> HasPrefix(h, MarkO), x |-> HasPrefix(a, MarkX), h |-> b]

\* the oversigned flag and the text left of a trimmed, non-empty part
stripMarker(h) ==
  IF HasPrefix(h, MarkO)
    THEN [o |-> TRUE, x |-> FALSE, h |-> TrimSpace(From(h, 3))]
  ELSE IF HasPrefix(h, MarkX)
    THEN [o |-> FALSE, x |-> TRUE, h |-> TrimSpace(From(h, 3))]
  ELSE [o |-> FALSE, x |-> FALSE, h |-> h]

\* variant: the header name is lower-cased
signHeaderPartLower(acc, part) ==
  LET h == TrimSpace(part) IN
  IF h = <<>> THEN acc
  ELSE LET m == stripMarker(h) IN
       IF m.h = <<>> THEN acc
       ELSE Append(acc, SignHeader(ToLower(m.h), m.o, m.x))

\* the body of parseSignHeaders' loop: `acc` after `part`
signHeaderPart(acc, part) ==
  LET h == TrimSpace(part) IN
  IF h = <<>> THEN acc
  ELSE LET m == stripMarker(h) IN
       IF m.h = <<>> THEN acc
       ELSE Append(acc, SignHeader(m.h, m.o, m.x))

RECURSIVE signHeaderLoop(_, _)
signHeaderLoop(acc, parts) ==
  IF parts = <<>> THEN acc
  ELSE signHeaderLoop(signHeaderPart(acc, Head(parts)), Tail(parts))

parseSignHeaders(raw) == signHeaderLoop(<<>>, Split(raw, ":"))

\* ------------------------------------------------------------- projections

Ktrue == <<"t","r","u","e">>
Kfalse == <<"f","a","l","s","e">>
Kenabled == <<"e","n","a","b","l","e","d">>
Ksign_headers == <<"s","i","g","n","_","h","e","a","d","e","r","s">>
Kallow_username_mismatch ==
  <<"a","l","l","o","w","_","u","s","e","r","n","a","m","e","_","m","i","s","m","a","t","c","h">>
Ksign_authenticated ==
  <<"s","i","g","n","_","a","u","t","h","e","n","t","i","c","a","t","e","d">>
Ksign_local == <<"s","i","g","n","_","l","o","c","a","l">>
Ksign_inbound == <<"s","i","g","n","_","i","n","b","o","u","n","d">>
Kallow_hdrfrom_mismatch ==
  <<"a","l","l","o","w","_","h","d","r","f","r","o","m","_","m","i","s","m","a","t","c","h">>
Kuse_esld == <<"u","s","e","_","e","s","l","d">>
Ktry_fallback == <<"t","r","y","_","f","a","l","l","b","a","c","k">>
Kuse_domain == <<"u","s","e","_","d","o","m","a","i","n">>
Kuse_domain_sign_local == Kuse_domain \o <<"_">> \o Ksign_local
Kuse_domain_sign_networks ==
  Kuse_domain \o <<"_","s","i","g","n","_","n","e","t","w","o","r","k","s">>
Kpath == <<"p","a","t","h">>
Kselector == <<"s","e","l","e","c","t","o","r">>
Kpath_map == Kpath \o <<"_","m","a","p">>
Kselector_map == Kselector \o <<"_","m","a","p">>

\* a parseBool that compares the value as written, without strings.ToLower
parseBoolExact(val) ==
  IF val = Ktrue THEN [b |-> TRUE, err |-> NoErr]
  ELSE IF val = Kfalse THEN [b |-> FALSE, err |-> NoErr]
  ELSE [b |-> FALSE, err |-> Err("invalid boolean", <<>>, val)]

\* parseBool
parseBool(val) ==
  LET lo == ToLower(val) IN
  IF lo = Ktrue THEN [b |-> TRUE, err |-> NoErr]
  ELSE IF lo = Kfalse THEN [b |-> FALSE, err |-> NoErr]
  ELSE [b |-> FALSE, err |-> Err("invalid boolean", <<>>, val)]

\* fmt.Errorf("parse <key>: %w", err)
WrapParse(k, err) == Err("parse: invalid boolean", k, err.val)

Returned(conf, err) == [conf |-> conf, err |-> err]

\* ParseDKIMConf, from what parseRspamdConfig returned
ParseDKIMConf(r) ==
  IF r.err # NoErr THEN Returned(Nil, r.err)
  ELSE LET a == r.assignments[1]
           sh == Get(a, Ksign_headers)
           conf == [Enabled |-> Nil, SignHeaders |-> sh,
                    SignHeaderList |-> IF sh # <<>> THEN parseSignHeaders(sh) ELSE <<>>]
       IN IF Kenabled \in DOMAIN a
            THEN LET p == parseBool(a[Kenabled]) IN
                 IF p.err # NoErr THEN Returned(Nil, WrapParse(Kenabled, p.err))
                 ELSE Returned(Ptr([conf EXCEPT !.Enabled = Ptr(p.b)]), NoErr)
            ELSE Returned(Ptr(conf), NoErr)

\* the setBool calls of ParseDKIMSigningConf, in their order
BoolFields ==
  << <<"Enabled", Kenabled>>,
     <<"AllowUsernameMismatch", Kallow_username_mismatch>>,
     <<"SignAuthenticated", Ksign_authenticated>>,
     <<"SignLocal", Ksign_local>>,
     <<"SignInbound", Ksign_inbound>>,
     <<"AllowHdrFromMismatch", Kallow_hdrfrom_mismatch>>,
     <<"UseESLD", Kuse_esld>>,
     <<"TryFallback", Ktry_fallback>> >>

\* a setBool that stores a plain bool's zero value as "unset"
setBoolDropFalse(conf, a, dst, k) ==
  IF k \notin DOMAIN a THEN Returned(conf, NoErr)
  ELSE LET p == parseBool(a[k]) IN
       IF p.err # NoErr THEN Returned(conf, WrapParse(k, p.err))
       ELSE Returned([conf EXCEPT ![dst] = IF p.b THEN Ptr(TRUE) ELSE Nil], NoErr)

\* setBool: the config after it, and its error
setBool(conf, a, dst, k) ==
  IF k \notin DOMAIN a THEN Returned(conf, NoErr)
  ELSE LET p == parseBool(a[k]) IN
       IF p.err # NoErr THEN Returned(conf, WrapParse(k, p.err))
       ELSE Returned([conf EXCEPT ![dst] = Ptr(p.b)], NoErr)

\* `if err := setBool(...); err != nil { return nil, err }`, from the i-th on
RECURSIVE setBools(_, _, _)
setBools(conf, a, i) ==
  IF i > Len(BoolFields) THEN Returned(Ptr(conf), NoErr)
  ELSE LET r == setBool(conf, a, BoolFields[i][1], BoolFields[i][2]) IN
       IF r.err # NoErr THEN Returned(Nil, r.err) ELSE setBools(r.conf, a, i + 1)

\* variant: a block without `path` takes its selector as the path
DomainRulePathDefault(r) ==
  [Selector |-> Get(r, Kselector),
   Path |-> IF Kpath \in DOMAIN r THEN r[Kpath] ELSE Get(r, Kselector)]

\* conf.Domain[key] = DomainRule{Selector: rule["selector"], Path: rule["path"]}
DomainRule(r) == [Selector |-> Get(r, Kselector), Path |-> Get(r, Kpath)]

\* ParseDKIMSigningConf, from what parseRspamdConfig returned
ParseDKIMSigningConf(r) ==
  IF r.err # NoErr THEN Returned(Nil, r.err)
  ELSE LET a == r.assignments[1]
           d == r.domains[1]
           conf == [Enabled |-> Nil, AllowUsernameMismatch |-> Nil,
                    SignAuthenticated |-> Nil, SignLocal |-> Nil, SignInbound |-> Nil,
                    UseDomain |-> Get(a, Kuse_domain),
                    UseDomainSignLocal |-> Get(a, Kuse_domain_sign_local),
                    UseDomainSignNetworks |-> Get(a, Kuse_domain_sign_networks),
                    AllowHdrFromMismatch |-> Nil, UseESLD |-> Nil, TryFallback |-> Nil,
                    Path |-> Get(a, Kpath), Selector |-> Get(a, Kselector),
                    PathMap |-> Get(a, Kpath_map), SelectorMap |-> Get(a, Kselector_map),
                    Domain |-> [k \in DOMAIN d |-> DomainRule(d[k])]]
       IN setBools(conf, a, 1)

\* ------------------------------------------------------------- the reader

Kdomain == <<"d","o","m","a","i","n">>

\* what one read of the streaming reader may deliver, by the kind of text:
\* top-level assignments of booleans, domain blocks, lexical corner cases
Chunks(v) ==
  IF v = "toplevel"
    THEN {Kenabled, Ksign_local, Ktrue, <<"F","A","L","S","E">>, <<"x">>,
          <<"=">>, <<";">>, <<"\n">>}
  ELSE IF v = "domain"
    THEN {Kdomain, Kpath, Kselector, <<"a","b">>, <<"\"", "a", ".", "b", "\"">>,
          <<"{">>, <<"}">>, <<"=">>, <<";">>}
  ELSE {Kpath, <<"/", "v">>, <<"d", ".", "s">>, <<"@">>, <<"#">>, <<"\n">>,
        <<"\"", "x">>, <<"\"">>, <<"\\">>, <<"=">>, <<";">>}

Vocabs == {"toplevel", "domain", "lexical"}

NotCalled == Returned(Nil, NoErr)
NoShape == [given |-> FALSE, tops |-> <<>>, entries |-> <<>>]
NoHdr == [raw |-> <<>>, parts |-> <<>>, out |-> <<>>, pc |-> "none"]

Init ==
  /\ vocab \in Vocabs
  /\ Apply0(Start(<<>>, FALSE))
  /\ out = [api |-> "none", conf |-> Nil, err |-> NoErr]
  /\ input = <<>>
  /\ nfed = 0
  /\ shape = NoShape
  /\ hdr = NoHdr

\* the reader is asked for more: the lexer is blocked in ReadRune
Starved == Running(St) /\ ~closed /\ stream = <<>> /\ l.peek = Nil

\* a read delivers the runes c
Feed(c) ==
  /\ Starved
  /\ nfed < MaxChunks
  /\ LET o == next(l, c, FALSE) IN
       (l.at \in {"readIdent", "readString", "readEscape"} /\ o.st = "wait")
         => Len(o.l.buf) <= MaxIdent
  /\ stream' = c
  /\ nfed' = nfed + 1
  /\ UNCHANGED <<pc, l, closed, key, domainKey, t, rule, assignments, domains,
                 ret, out, input, vocab, shape, hdr>>

\* a read reports io.EOF
Close ==
  /\ Starved
  /\ closed' = TRUE
  /\ UNCHANGED <<pc, l, stream, key, domainKey, t, rule, assignments, domains,
                 ret, out, input, nfed, vocab, shape, hdr>>

\* the lexer read every rune there is without completing a token and blocks
LexerWait ==
  /\ Running(St) /\ stream # <<>>
  /\ NextTok(St).st = "wait"
  /\ l' = NextTok(St).l
  /\ stream' = <<>>
  /\ UNCHANGED <<pc, closed, key, domainKey, t, rule, assignments, domains,
                 ret, out, input, nfed, vocab, shape, hdr>>

\* one step of the parser from one of the places `at`
ParserStep(at) ==
  /\ pc \in at
  /\ Ready(St)
  /\ Apply(Step(St))
  /\ UNCHANGED <<out, input, nfed, vocab, shape, hdr>>

TopLoop == ParserStep({"top"})
ExpectEqual == ParserStep({"top_eq", "rule_eq"})
ExpectLBrace == ParserStep({"dom_open", "ent_open"})
ParseValue == ParserStep({"top_val", "rule_val"})
TryConsumeSemicolon == ParserStep({"top_semi", "rule_semi", "dom_semi"})
DomainLoop == ParserStep({"dom"})
RuleLoop == ParserStep({"rule"})
EntryClose == ParserStep({"ent_semi"})

\* the caller was ParseDKIMConf
CallParseDKIMConf ==
  /\ pc = "parsed"
  /\ pc' = "done"
  /\ out' = [api |-> "ParseDKIMConf", conf |-> ParseDKIMConf(ret).conf,
             err |-> ParseDKIMConf(ret).err]
  /\ UNCHANGED <<l, stream, closed, key, domainKey, t, rule, assignments, domains,
                 ret, input, nfed, vocab, shape, hdr>>

\* the caller was ParseDKIMSigningConf
CallParseDKIMSigningConf ==
  /\ pc = "parsed"
  /\ pc' = "done"
  /\ out' = [api |-> "ParseDKIMSigningConf", conf |-> ParseDKIMSigningConf(ret).conf,
             err |-> ParseDKIMSigningConf(ret).err]
  /\ UNCHANGED <<l, stream, closed, key, domainKey, t, rule, assignments, domains,
                 ret, input, nfed, vocab, shape, hdr>>

Parse ==
  \/ TopLoop
  \/ ExpectEqual
  \/ ExpectLBrace
  \/ ParseValue
  \/ TryConsumeSemicolon
  \/ DomainLoop
  \/ RuleLoop
  \/ EntryClose

Next ==
  \/ \E c \in Chunks(vocab) : Feed(c)
  \/ Close
  \/ LexerWait
  \/ Parse
  \/ CallParseDKIMConf
  \/ CallParseDKIMSigningConf

Spec == Init /\ [][Next]_vars

\* The call runs on: a parser step that can be taken is taken, a lexer that
\* has read all there is blocks in its read, and the input being finite, a
\* reader that is asked for more once nothing more comes reports io.EOF.
NextLive ==
  \/ \E c \in Chunks(vocab) : nfed < MaxLive /\ Feed(c)
  \/ Close
  \/ LexerWait
  \/ Parse
  \/ CallParseDKIMConf
  \/ CallParseDKIMSigningConf

SpecLive ==
  Init /\ [][NextLive]_vars /\ WF_vars(Parse) /\ WF_vars(LexerWait) /\ WF_vars(Close)

\* ---------------------------------------------- a call of parseSignHeaders

HdrPieces == {MarkO, MarkX, <<"(">>, <<":">>, <<" ">>, <<"f">>, <<"D">>}

RECURSIVE Concat(_)
Concat(ss) == IF ss = <<>> THEN <<>> ELSE Head(ss) \o Concat(Tail(ss))

\* the texts made of at most n pieces of P
SeqsUpTo(P, n) == UNION {[1..k -> P] : k \in 0..n}

HdrInputs == {Concat(ps) : ps \in SeqsUpTo(HdrPieces, MaxHdr)}

\* the parser at rest: the call is of parseSignHeaders alone
Idle == [Start(<<>>, TRUE) EXCEPT !.pc = "done"]

InitHdr ==
  /\ Apply0(Idle)
  /\ out = [api |-> "none", conf |-> Nil, err |-> NoErr]
  /\ input = <<>>
  /\ nfed = 0
  /\ vocab = "none"
  /\ shape = NoShape
  /\ \E raw \in HdrInputs :
       hdr = [raw |-> raw, parts |-> <<>>, out |-> <<>>, pc |-> "call"]

HdrUnchanged ==
  UNCHANGED <<pc, l, stream, closed, key, domainKey, t, rule, assignments, domains,
              ret, out, input, nfed, vocab, shape>>

\* parts := strings.Split(raw, ":"); out := make([]SignHeader, 0, len(parts))
HdrSplit ==
  /\ hdr.pc = "call"
  /\ hdr' = [hdr EXCEPT !.parts = Split(hdr.raw, ":"), !.out = <<>>, !.pc = "loop"]
  /\ HdrUnchanged

\* one iteration of `for _, part := range parts`
HdrPart ==
  /\ hdr.pc = "loop" /\ hdr.parts # <<>>
  /\ hdr' = [hdr EXCEPT !.out = signHeaderPart(hdr.out, Head(hdr.parts)),
                        !.parts = Tail(hdr.parts)]
  /\ HdrUnchanged

\* return out
HdrReturn ==
  /\ hdr.pc = "loop" /\ hdr.parts = <<>>
  /\ hdr' = [hdr EXCEPT !.pc = "returned"]
  /\ HdrUnchanged

NextHdr ==
  \/ HdrSplit
  \/ HdrPart
  \/ HdrReturn

SpecHdr == InitHdr /\ [][NextHdr]_vars

\* ------------------------------------------------- a buffered (whole) input

\* the reader holds the whole text from the start and never blocks.  The
\* text is a context (top level, inside a domain block, inside an entry)
\* followed by a few tokens, or a signing config written out from entries.

BatchChunks ==
  {<<"a","b">>, <<"=">>, <<";">>, <<"{">>, <<"}">>, <<"\"","x","\"">>, <<"@">>, <<"\n">>}

Prefixes == {<<>>, Kdomain \o <<"{">>, Kdomain \o <<"{","a","b","{">>}

FreeInputs ==
  {pre \o Concat(cs) : pre \in Prefixes, cs \in SeqsUpTo(BatchChunks, MaxBatch)}

\* a value as it must be written: quoted unless it can be an identifier
Quoted(v) == <<"\"">> \o v \o <<"\"">>
WriteValue(v) == IF v # <<>> /\ isIdentStart(v[1]) THEN v ELSE Quoted(v)

RECURSIVE WriteAssigns(_)
WriteAssigns(as) ==
  IF as = <<>> THEN <<>>
  ELSE Head(as)[1] \o <<" ", "=", " ">> \o WriteValue(Head(as)[2]) \o <<";", " ">>
       \o WriteAssigns(Tail(as))

\* entry e: its label (quoted or bare), its assignments, and whether it
\* opens a domain block of its own
WriteEntry(e) ==
  (IF e.quoted THEN Quoted(e.label) ELSE e.label) \o <<" ", "{", " ">>
  \o WriteAssigns(e.assigns) \o <<"}", "\n">>

RECURSIVE WriteEntries(_, _)
WriteEntries(es, first) ==
  IF es = <<>> THEN (IF first THEN <<>> ELSE <<"}", "\n">>)
  ELSE (IF first THEN Kdomain \o <<" ", "{", "\n">>
        ELSE IF Head(es).opens THEN <<"}", "\n">> \o Kdomain \o <<" ", "{", "\n">>
        ELSE <<>>)
       \o WriteEntry(Head(es)) \o WriteEntries(Tail(es), FALSE)

S1 == <<"s","1">>
S2 == <<"s","2">>
SlashP == <<"/","p">>

AssignLists ==
  { << <<Kselector, S1>>, <<Kpath, SlashP>> >>, << <<Kselector, S2>> >>,
    << <<Kpath, SlashP>>, <<Kpath, S1>> >> }

Entries ==
  [label : {<<"a",".","c","o","m">>}, quoted : {TRUE}, assigns : AssignLists,
   opens : BOOLEAN]
  \cup [label : {<<"b">>}, quoted : {FALSE},
        assigns : {<< <<Kselector, S2>> >>, << <<Kenabled, S1>> >>}, opens : {FALSE}]

\* top-level assignments: two keys, a bare and a quoted value
TopPairs == {<<k, v>> : k \in {Kselector, Kpath}, v \in {S1, SlashP}}

\* a config of top-level assignments, one of domain entries, or one
\* assignment followed by at most one entry
Shapes ==
  [tops : SeqsUpTo(TopPairs, MaxTop), entries : {<<>>}]
  \cup [tops : {<<>>}, entries : SeqsUpTo(Entries, MaxEntries)]
  \cup [tops : {<< <<Kselector, S1>> >>}, entries : SeqsUpTo(Entries, 1)]

InitBatch ==
  /\ \/ /\ input \in FreeInputs
        /\ shape = NoShape
     \/ \E sh \in Shapes :
          /\ shape = [given |-> TRUE, tops |-> sh.tops, entries |-> sh.entries]
          /\ input = WriteAssigns(sh.tops) \o WriteEntries(sh.entries, TRUE)
  /\ Apply0(Start(input, TRUE))
  /\ out = [api |-> "none", conf |-> Nil, err |-> NoErr]
  /\ nfed = 0
  /\ vocab = "none"
  /\ hdr = NoHdr

NextBatch ==
  \/ Parse
  \/ CallParseDKIMConf
  \/ CallParseDKIMSigningConf

SpecBatch == InitBatch /\ [][NextBatch]_vars

\* ------------------------------------- a buffered input given token by token

\* one text per token type, `domain` among the identifiers
TokTexts ==
  {Kdomain, <<"a","b">>, <<"\"","x","\"">>, <<"=">>, <<"{">>, <<"}">>, <<";">>}

RECURSIVE Spaced(_)
Spaced(ts) == IF ts = <<>> THEN <<>> ELSE Head(ts) \o <<" ">> \o Spaced(Tail(ts))

TokPrefixes ==
  {<<>>, <<Kdomain, <<"{">> >>, <<Kdomain, <<"{">>, <<"a","b">>, <<"{">> >>,
   <<Kdomain, <<"{">>, <<"a","b">>, <<"{">>, Kdomain, <<"=">> >>}

TokInputs ==
  {Spaced(pre \o ts) : pre \in TokPrefixes, ts \in SeqsUpTo(TokTexts, MaxTok)}

InitTok ==
  /\ input \in TokInputs
  /\ shape = NoShape
  /\ Apply0(Start(input, TRUE))
  /\ out = [api |-> "none", conf |-> Nil, err |-> NoErr]
  /\ nfed = 0
  /\ vocab = "none"
  /\ hdr = NoHdr

SpecTok == InitTok /\ [][NextBatch]_vars

\* ------------------------------------- a buffered input holding a string

StrRunes == {"\"", "\\", "n", "#", " ", "{", "}", ";"}

\* the text up to and including the opening quote: a top-level value, a
\* domain label, a value inside a domain entry
StrPrefixes ==
  {<<"a","b"," ","=","\"">>, Kdomain \o <<"{","\"">>,
   Kdomain \o <<"{","a","b","{","a","b","=","\"">>}

StrInputs == {pre \o body : pre \in StrPrefixes, body \in SeqsUpTo(StrRunes, MaxStr)}

InitStr ==
  /\ input \in StrInputs
  /\ shape = NoShape
  /\ Apply0(Start(input, TRUE))
  /\ out = [api |-> "none", conf |-> Nil, err |-> NoErr]
  /\ nfed = 0
  /\ vocab = "none"
  /\ hdr = NoHdr

SpecStr == InitStr /\ [][NextBatch]_vars

\* ------------------------------------------------------------------ claims

Done == pc = "done"
Conf == out.conf[1]

\* "true" / "false" in any letter case, written out rune by rune
TrueAnyCase(v) ==
  /\ Len(v) = 4
  /\ v[1] \in {"t", "T"} /\ v[2] \in {"r", "R"} /\ v[3] \in {"u", "U"}
  /\ v[4] \in {"e", "E"}
FalseAnyCase(v) ==
  /\ Len(v) = 5
  /\ v[1] \in {"f", "F"} /\ v[2] \in {"a", "A"} /\ v[3] \in {"l", "L"}
  /\ v[4] \in {"s", "S"} /\ v[5] \in {"e", "E"}

\* the optional-boolean fields the called projection fills, with their keys
BoolFieldsOf(api) ==
  IF api = "ParseDKIMConf" THEN {<<"Enabled", Kenabled>>} ELSE Range(BoolFields)

\* C1: after a successful ParseDKIMConf / ParseDKIMSigningConf every
\* optional-boolean field is nil exactly when its key was never assigned in
\* the text, and a key assigned "false" yields a set field holding false.
C1_OptionalBoolNilIffAbsent ==
  (Done /\ out.err = NoErr) =>
    \A f \in BoolFieldsOf(out.api) :
      /\ (Conf[f[1]] = Nil) <=> (f[2] \notin DOMAIN assignments)
      /\ (f[2] \in DOMAIN assignments /\ FalseAnyCase(assignments[f[2]]))
           => Conf[f[1]] = Ptr(FALSE)

C1_Witness ==
  /\ Done /\ out.err = NoErr /\ out.api = "ParseDKIMSigningConf"
  /\ Kenabled \in DOMAIN assignments /\ FalseAnyCase(assignments[Kenabled])
  /\ Conf.Enabled = Ptr(FALSE)
  /\ Ksign_local \notin DOMAIN assignments /\ Conf.SignLocal = Nil

\* the optional-boolean keys of the projection whose value is no boolean
BadBools(api) ==
  {f \in BoolFieldsOf(api) :
     /\ f[2] \in DOMAIN assignments
     /\ ~TrueAnyCase(assignments[f[2]]) /\ ~FalseAnyCase(assignments[f[2]])}

\* C2: when the text parsed, a projection whose optional-boolean keys all
\* hold "true"/"false" in any letter case returns those booleans, and one
\* with any other value for such a key returns no config but a coercion
\* error naming such a key and its raw value.
C2_BooleanCoercion ==
  (Done /\ ret.err = NoErr) =>
    IF BadBools(out.api) = {}
      THEN /\ out.err = NoErr
           /\ \A f \in BoolFieldsOf(out.api) :
                f[2] \in DOMAIN assignments =>
                  Conf[f[1]] = Ptr(TrueAnyCase(assignments[f[2]]))
      ELSE /\ out.conf = Nil
           /\ out.err.kind = "parse: invalid boolean"
           /\ \E f \in BadBools(out.api) :
                out.err.key = f[2] /\ out.err.val = assignments[f[2]]

C2_Witness ==
  /\ Done /\ ret.err = NoErr /\ out.api = "ParseDKIMSigningConf"
  /\ Kenabled \in DOMAIN assignments /\ FalseAnyCase(assignments[Kenabled])
  /\ assignments[Kenabled] # Kfalse
  /\ Ksign_local \in DOMAIN assignments /\ assignments[Ksign_local] = <<"x">>
  /\ out.conf = Nil /\ out.err.key = Ksign_local /\ out.err.val = <<"x">>

\* C3: a rune that can start no token, met outside a string and a comment,
\* aborts the call with the lexical error naming it, wherever it is met.
C3_LexicalErrorAborts ==
  [][(Ready(St) /\ NextTok(St).err.kind = "unexpected character")
       => (pc' = "parsed" /\ ret'.err = NextTok(St).err)]_vars

\* C4: a call that returns an error returns nothing else: the maps of
\* parseRspamdConfig and the config of the projection are nil.
C4_NoPartialResult ==
  /\ (pc \in {"parsed", "done"} /\ ret.err # NoErr)
       => (ret.assignments = Nil /\ ret.domains = Nil)
  /\ (Done /\ out.err # NoErr) => out.conf = Nil

C4_Witness ==
  /\ Done /\ ret.err # NoErr /\ out.err = ret.err
  /\ assignments # EmptyMap /\ domains # EmptyMap

\* a text of identifier runes only that starts like a path or a name
PathLike(s) ==
  /\ s # <<>>
  /\ \A i \in DOMAIN s : isIdentPart(s[i])
  /\ IsLetter(s[1]) \/ s[1] = "/"
  /\ \E i \in DOMAIN s : s[i] \in {"/", "."}

\* C5: an unquoted dotted or path-like value is one identifier token with
\* exactly that text, and its assignment parses.
C5_PathLikeIdentifier ==
  (pc = "top_val" /\ l = newLexer /\ PathLike(stream)) =>
     LET n == Step([St EXCEPT !.closed = TRUE])
     IN n.pc = "top_semi" /\ n.assignments = Put(assignments, key, stream)

\* The reference procedure of the sign-header grammar, by positions in the
\* raw text rather than by the calls the code makes.

\* the end of the segment that starts at i: the first ':' at or after i
SegEnd(raw, i) ==
  IF \E j \in i..Len(raw) : raw[j] = ":"
    THEN CHOOSE j \in i..Len(raw) : raw[j] = ":" /\ \A k \in i..(j - 1) : raw[k] # ":"
    ELSE Len(raw) + 1

\* s without the whitespace around it
Trimmed(s) ==
  LET ns == {i \in DOMAIN s : ~IsSpace(s[i])} IN
  IF ns = {} THEN <<>>
  ELSE SubSeq(s, CHOOSE i \in ns : \A j \in ns : i <= j,
                 CHOOSE i \in ns : \A j \in ns : i >= j)

StartsWith3(h, a, b, c) == Len(h) >= 3 /\ h[1] = a /\ h[2] = b /\ h[3] = c

\* the entries (none or one) a segment stands for
RefEntry(seg) ==
  LET h == Trimmed(seg)
      o == StartsWith3(h, "(", "o", ")")
      x == ~o /\ StartsWith3(h, "(", "x", ")")
      name == IF o \/ x THEN Trimmed(SubSeq(h, 4, Len(h))) ELSE h
  IN IF name = <<>> THEN <<>> ELSE <<SignHeader(name, o, x)>>

RECURSIVE RefFrom(_, _)
RefFrom(raw, i) ==
  LET e == SegEnd(raw, i) IN
  RefEntry(SubSeq(raw, i, e - 1)) \o (IF e <= Len(raw) THEN RefFrom(raw, e + 1) ELSE <<>>)

RefSignHeaders(raw) == RefFrom(raw, 1)

ExampleRaw ==
  <<"(","o",")","f","r","o","m",":","(","x",")","d","a","t","e",":",
    "p","l","a","i","n">>
ExampleList ==
  << SignHeader(<<"f","r","o","m">>, TRUE, FALSE),
     SignHeader(<<"d","a","t","e">>, FALSE, TRUE),
     SignHeader(<<"p","l","a","i","n">>, FALSE, FALSE) >>

\* C7: parseSignHeaders returns what the reference procedure gives for the
\* raw text (segments in order, trimmed, marker stripped, empty ones dropped,
\* names as written), and the three entries of the documented example.
C7_SignHeadersReference ==
  /\ hdr.pc = "returned" => hdr.out = RefSignHeaders(hdr.raw)
  /\ parseSignHeaders(ExampleRaw) = ExampleList

C7_Witness ==
  /\ hdr.pc = "returned"
  /\ hdr.raw = MarkO \o <<"f", ":">> \o MarkX \o <<"D">>
  /\ hdr.out = <<SignHeader(<<"f">>, TRUE, FALSE), SignHeader(<<"D">>, FALSE, TRUE)>>

\* C8: every entry parseSignHeaders has produced has a non-empty name and
\* at most one of its two oversign flags set.
C8_SignHeaderEntryWellFormed ==
  \A i \in DOMAIN hdr.out :
    /\ hdr.out[i].Name # <<>>
    /\ ~(hdr.out[i].Oversigned /\ hdr.out[i].OptionalOversigned)

C8_Witness ==
  /\ hdr.pc = "returned"
  /\ hdr.raw = MarkO \o MarkX \o <<"f">>
  /\ hdr.out = <<SignHeader(MarkX \o <<"f">>, TRUE, FALSE)>>

\* what the written-out entries say: per label, the assignments of the last
\* entry with that label, each key holding its last value there
LastWith(es, lab) ==
  CHOOSE i \in DOMAIN es : es[i].label = lab /\ \A j \in DOMAIN es : j > i => es[j].label # lab
MapOf(as) ==
  [k \in {as[i][1] : i \in DOMAIN as} |->
     as[CHOOSE i \in DOMAIN as : as[i][1] = k /\ \A j \in DOMAIN as : j > i => as[j][1] # k][2]]
ExpectedDomains(es) ==
  [lab \in {es[i].label : i \in DOMAIN es} |-> MapOf(es[LastWith(es, lab)].assigns)]

ValueOr(m, k) == IF k \in DOMAIN m THEN m[k] ELSE <<>>

\* C6: for a signing config written out from domain entries (in one block
\* or several), the Domain Block Map holds per label exactly the assignments
\* of the last entry with that label, and ParseDKIMSigningConf projects that.
C6_DuplicateDomainReplaces ==
  (shape.given /\ pc \in {"parsed", "done"}) =>
    LET exp == ExpectedDomains(shape.entries) IN
    /\ ret.err = NoErr
    /\ ret.domains = Ptr(exp)
    /\ (Done /\ out.api = "ParseDKIMSigningConf") =>
         /\ out.err = NoErr
         /\ Conf.Domain = [lab \in DOMAIN exp |->
                             [Selector |-> ValueOr(exp[lab], Kselector),
                              Path |-> ValueOr(exp[lab], Kpath)]]

Acom == <<"a",".","c","o","m">>

C6_Witness ==
  /\ Done /\ out.api = "ParseDKIMSigningConf" /\ shape.given
  /\ shape.entries =
       << [label |-> Acom, quoted |-> TRUE, opens |-> TRUE,
           assigns |-> << <<Kselector, S1>>, <<Kpath, SlashP>> >>],
          [label |-> Acom, quoted |-> TRUE, opens |-> TRUE,
           assigns |-> << <<Kselector, S2>> >>] >>
  /\ Conf.Domain[Acom] = [Selector |-> S2, Path |-> <<>>]

\* the text lexes into tokens without a lexical error
RECURSIVE LexClean(_)
LexClean(text) ==
  LET o == scan(text, TRUE) IN
  IF o.st = "err" THEN FALSE
  ELSE IF o.tok.typ = tokenEOF THEN TRUE
  ELSE LexClean(o.rest)

InsertAt(s, off, w) == SubSeq(s, 1, off) \o w \o SubSeq(s, off + 1, Len(s))
ReplaceAt(s, i, r) == [s EXCEPT ![i] = r]

\* the places where the parser tries to consume the optional ';'
SemiPlaces == {"top_semi", "rule_semi", "dom_semi", "ent_semi"}

\* C9: at every place where the parser looks for the optional ';' (after a
\* value, after a closing '}') in a text of tokens, the text with the one
\* ';' there and the text without it have the same outcome: taking the ';'
\* out (when no second ';' follows it) or putting one in changes neither
\* the maps nor the error.
C9_OptionalSemicolon ==
  (pc \in SemiPlaces /\ LexClean(input)) =>
    LET o == NextTok(St)
        off == Len(input) - Len(stream)
        at == Len(input) - Len(o.rest)
    IN IF o.tok.typ = tokenSemicolon
         THEN next(o.l, o.rest, TRUE).tok.typ # tokenSemicolon
                => parseRspamdConfig(ReplaceAt(input, at, " ")) = parseRspamdConfig(input)
         ELSE parseRspamdConfig(InsertAt(input, off, <<";">>)) = parseRspamdConfig(input)

C9_Witness ==
  /\ pc = "ent_semi" /\ LexClean(input)
  /\ NextTok(St).tok.typ = tokenRBrace
  /\ parseRspamdConfig(input).err = NoErr
  /\ parseRspamdConfig(InsertAt(input, Len(input) - Len(stream), <<";">>)).domains
       = Ptr(<<"a","b">> :> EmptyMap)

Blanks == {<<" ">>, <<"\n">>, <<"#", "c", "=", "\n">>, <<"\n", "\t", "#", "\n">>}

\* C10: blank runs and whole comment lines put in where the lexer starts to
\* look for a token never change what parseRspamdConfig returns, and a
\* comment that runs to the end of the input ends cleanly.
C10_BlankAndCommentInvariance ==
  /\ (Running(St) /\ l.peek = Nil) =>
       LET whole == parseRspamdConfig(input) IN
       \A w \in Blanks :
         parseRspamdConfig(InsertAt(input, Len(input) - Len(stream), w)) = whole
  /\ pc = "parsed" => parseRspamdConfig(input \o <<"#", "c">>) = ret

C10_Witness ==
  /\ pc = "rule_val" /\ l.peek = Nil /\ stream # <<>>
  /\ parseRspamdConfig(input).err = NoErr
  /\ parseRspamdConfig(InsertAt(input, Len(input) - Len(stream), <<"#", "c", "=", "\n">>)).domains
       = Ptr(<<"b">> :> (Kselector :> S2))

\* the next token is the identifier `domain`
DomainNext(s) ==
  Ready(s) /\ NextTok(s).st = "tok" /\ NextTok(s).tok = token(tokenIdent, Kdomain)

\* C11: at top level the identifier `domain` always opens a domain block and
\* is never the key of an assignment (the Assignment Map never has the key
\* "domain"); when the token after it is not '{' the call returns the syntax
\* error of expect; inside a domain entry `domain` is a key like any other.
C11_DomainKeyword ==
  /\ Kdomain \notin DOMAIN assignments
  /\ (pc \in {"parsed", "done"} /\ ret.err = NoErr)
       => Kdomain \notin DOMAIN ret.assignments[1]
  /\ (pc = "top" /\ DomainNext(St))
       => LET n == Step(St)
              o == NextTok([n EXCEPT !.closed = TRUE])
              m == Step([n EXCEPT !.closed = TRUE])
          IN /\ n.pc = "dom_open" /\ n.assignments = assignments
             /\ (o.st = "tok" /\ o.tok.typ # tokenLBrace)
                  => /\ m.pc = "parsed"
                     /\ m.ret = [assignments |-> Nil, domains |-> Nil,
                                  err |-> Err("expected token", <<tokenLBrace>>,
                                              <<o.tok.typ>>)]
             /\ (o.st = "tok" /\ o.tok.typ = tokenLBrace) => m.pc = "dom"
  /\ (pc = "rule" /\ DomainNext(St))
       => Step(St).pc = "rule_eq" /\ Step(St).t.val = Kdomain
  /\ (pc = "rule_val" /\ t.val = Kdomain /\ Ready(St) /\ parseValue(NextTok(St)).err = NoErr)
       => Step(St).rule = Put(rule, Kdomain, NextTok(St).tok.val)

C11_Witness ==
  /\ pc = "parsed"
  /\ ret.err = Err("expected token", <<tokenLBrace>>, <<tokenEqual>>)
  /\ domainKey = <<>> /\ key = <<>> /\ assignments = EmptyMap

\* C12: for a config written out from any sequence of top-level assignments
\* the parse succeeds, and the Assignment Map has exactly the assigned keys,
\* each holding the value of the last assignment to it in input order.
C12_LastWriteWins ==
  (shape.given /\ pc \in {"parsed", "done"}) =>
    /\ ret.err = NoErr
    /\ ret.assignments = Ptr(MapOf(shape.tops))
    /\ DOMAIN ret.assignments[1] = {shape.tops[i][1] : i \in DOMAIN shape.tops}

C12_Witness ==
  /\ pc = "parsed" /\ shape.given
  /\ shape.tops = << <<Kselector, S1>>, <<Kpath, SlashP>>, <<Kselector, SlashP>> >>
  /\ ret.err = NoErr
  /\ ret.assignments = Ptr((Kselector :> SlashP) @@ (Kpath :> SlashP))

\* a block without the keys a Domain Rule does not read
Recognized(r) == [k \in DOMAIN r \cap {Kselector, Kpath} |-> r[k]]

\* C13: in every config ParseDKIMSigningConf returns, Domain has exactly the
\* labels of the Domain Block Map, each rule holds the block's `selector` and
\* `path` or the empty string where the block lacks the key, and the other
\* keys of a block change neither the rule nor any top-level field.
C13_DomainRuleProjection ==
  (Done /\ out.api = "ParseDKIMSigningConf" /\ out.err = NoErr) =>
    LET d == ret.domains[1]
        bare == ParseDKIMSigningConf([ret EXCEPT !.domains = Ptr(EmptyMap)]).conf[1]
    IN /\ DOMAIN Conf.Domain = DOMAIN d
       /\ \A lab \in DOMAIN d :
            /\ Conf.Domain[lab].Selector
                 = (IF Kselector \in DOMAIN d[lab] THEN d[lab][Kselector] ELSE <<>>)
            /\ Conf.Domain[lab].Path
                 = (IF Kpath \in DOMAIN d[lab] THEN d[lab][Kpath] ELSE <<>>)
            /\ Conf.Domain[lab] = DomainRule(Recognized(d[lab]))
       /\ [Conf EXCEPT !.Domain = EmptyMap] = bare

C13_Witness ==
  /\ Done /\ out.api = "ParseDKIMSigningConf" /\ out.err = NoErr
  /\ ret.domains = Ptr(<<"b">> :> (Kenabled :> S1))
  /\ Conf.Domain = (<<"b">> :> [Selector |-> <<>>, Path |-> <<>>])
  /\ Conf.Selector = S1 /\ Conf.Enabled = Nil

\* the tokens of a text, without the end-of-input token
RECURSIVE Tokens(_)
Tokens(text) ==
  LET o == scan(text, TRUE) IN
  IF o.st # "tok" \/ o.tok.typ = tokenEOF THEN <<>>
  ELSE <<o.tok>> \o Tokens(o.rest)

\* The grammar, production by production; each production gives whether a
\* prefix of the tokens matches it and the tokens after that prefix.
\* `reserved` says whether `domain` is kept from being the IDENT of a
\* top-level assignment.
No(ts) == [ok |-> FALSE, rest |-> ts]
Yes(ts) == [ok |-> TRUE, rest |-> ts]
IsTok(ts, i, typs) == Len(ts) >= i /\ ts[i].typ \in typs
After(ts, n) == SubSeq(ts, n + 1, Len(ts))
OptSemi(ts) == IF IsTok(ts, 1, {tokenSemicolon}) THEN Tail(ts) ELSE ts

\* assignment := IDENT '=' (IDENT|STRING) ';'?
GAssignment(ts, reserved) ==
  IF /\ IsTok(ts, 1, {tokenIdent}) /\ IsTok(ts, 2, {tokenEqual})
     /\ IsTok(ts, 3, {tokenIdent, tokenString})
     /\ reserved => ts[1].val # Kdomain
    THEN Yes(OptSemi(After(ts, 3)))
    ELSE No(ts)

RECURSIVE GAssignments(_)
GAssignments(ts) ==
  LET a == GAssignment(ts, FALSE) IN IF a.ok THEN GAssignments(a.rest) ELSE ts

\* domain_entry := (IDENT|STRING) '{' assignment* '}' ';'?
GEntry(ts) ==
  IF IsTok(ts, 1, {tokenIdent, tokenString}) /\ IsTok(ts, 2, {tokenLBrace})
    THEN LET r == GAssignments(After(ts, 2)) IN
         IF IsTok(r, 1, {tokenRBrace}) THEN Yes(OptSemi(Tail(r))) ELSE No(ts)
    ELSE No(ts)

RECURSIVE GEntries(_)
GEntries(ts) == LET e == GEntry(ts) IN IF e.ok THEN GEntries(e.rest) ELSE ts

\* domain_block := 'domain' '{' domain_entry* '}' ';'?
GDomainBlock(ts) ==
  IF /\ IsTok(ts, 1, {tokenIdent}) /\ ts[1].val = Kdomain
     /\ IsTok(ts, 2, {tokenLBrace})
    THEN LET r == GEntries(After(ts, 2)) IN
         IF IsTok(r, 1, {tokenRBrace}) THEN Yes(OptSemi(Tail(r))) ELSE No(ts)
    ELSE No(ts)

\* config := (assignment | domain_block)* EOF
RECURSIVE GConfig(_, _)
GConfig(ts, reserved) ==
  IF ts = <<>> THEN TRUE
  ELSE LET a == GAssignment(ts, reserved)
           d == GDomainBlock(ts)
       IN \/ a.ok /\ GConfig(a.rest, reserved)
          \/ d.ok /\ GConfig(d.rest, reserved)

SyntaxErrors ==
  {"expected token", "unexpected value token", "unexpected token",
   "unexpected token in domain block", "unexpected token in domain rule"}

\* parseRspamdConfig returned, on a text of tokens
Returns == pc \in {"parsed", "done"} /\ LexClean(input)

\* C14 as stated: one `assignment` production at both levels, whose IDENT is
\* any identifier token.
C14_GrammarAsStated ==
  Returns => (ret.err = NoErr <=> GConfig(Tokens(input), FALSE))

\* C14: on a text of tokens parseRspamdConfig succeeds exactly when the
\* tokens match the grammar in which the IDENT of a top-level assignment is
\* any identifier but `domain` (inside a domain entry it is any identifier),
\* and every other token sequence is a syntax error.
C14_GrammarConformance ==
  Returns =>
    /\ ret.err = NoErr <=> GConfig(Tokens(input), TRUE)
    /\ ret.err # NoErr => ret.err.kind \in SyntaxErrors

C14_Witness ==
  /\ pc = "parsed" /\ ret.err = NoErr
  /\ ret.domains = Ptr(<<"a","b">> :> (Kdomain :> <<"a","b">>))
  /\ GConfig(Tokens(input), TRUE)

\* C15: wherever the parser asks for a token and the input ends inside a
\* quoted string (readString returns the reader's io.EOF), the call returns
\* with that error.
C15_UnterminatedStringFails ==
  (Ready(St) /\ NextTok(St).st = "err" /\ NextTok(St).err = ErrEOF)
    => (Step(St).pc = "parsed" /\ Step(St).ret.err = ErrEOF)

\* The text of a quoted string by positions in the runes after its opening
\* quote: a rune is escaped when an odd number of backslashes runs up to it.
RECURSIVE BackslashesBefore(_, _)
BackslashesBefore(body, i) ==
  IF i > 1 /\ body[i - 1] = "\\" THEN 1 + BackslashesBefore(body, i - 1) ELSE 0
Escaped(body, i) == BackslashesBefore(body, i) % 2 = 1
Closes(body, i) == body[i] = "\"" /\ ~Escaped(body, i)
HasClose(body) == \E i \in DOMAIN body : Closes(body, i)
CloseAt(body) ==
  CHOOSE i \in DOMAIN body : Closes(body, i) /\ \A j \in 1..(i - 1) : ~Closes(body, j)
\* the runes i..n in order, without the backslashes that escape
RECURSIVE Literal(_, _, _)
Literal(body, i, n) ==
  IF i > n THEN <<>>
  ELSE (IF body[i] = "\\" /\ ~Escaped(body, i) THEN <<>> ELSE <<body[i]>>)
       \o Literal(body, i + 1, n)

\* C16: when the lexer stands at an opening quote, the token it returns is
\* the string whose text is, in order, every rune up to the first unescaped
\* quote, each backslash that escapes left out and the rune after it copied
\* as it is; the lexer goes on after that quote; and without such a quote
\* the input ends inside the string.
C16_StringEscapes ==
  (Running(St) /\ l = newLexer /\ stream # <<>> /\ Head(stream) = "\"") =>
    LET body == Tail(stream)
        o == NextTok(St)
    IN IF HasClose(body)
         THEN /\ o.st = "tok"
              /\ o.tok = token(tokenString, Literal(body, 1, CloseAt(body) - 1))
              /\ o.rest = SubSeq(body, CloseAt(body) + 1, Len(body))
         ELSE o.st = "err" /\ o.err = ErrEOF

C16_Witness ==
  /\ pc = "top_semi"
  /\ input = <<"a","b"," ","=","\"">> \o <<"\\", "\"", "#", "\"">>
  /\ assignments = (<<"a","b">> :> <<"\"", "#">>)

\* the tokens the parser has still to get in state s: the pushed-back one,
\* then those the lexer makes of the unread runes (end-of-input left out)
Pending(s) ==
  (IF s.l.peek # Nil /\ s.l.peek[1].typ # tokenEOF THEN <<s.l.peek[1]>> ELSE <<>>)
  \o Tokens(s.stream)
FirstOf(ts) == IF ts = <<>> THEN token(tokenEOF, <<>>) ELSE Head(ts)
Rest(ts) == IF ts = <<>> THEN <<>> ELSE Tail(ts)

\* C17: the peek slot is filled only by tryConsume (so only at the heads of
\* the loops) and is empty whenever unread is called; a call of next() with
\* the slot filled returns that very token, reads nothing and empties the
\* slot; and every call of next() hands the parser the first token still
\* pending, after which the pending tokens are the same ones (the token was
\* pushed back) or the ones after it (it was consumed): none is dropped,
\* duplicated or reordered.
C17_PushbackLossless ==
  Running(St) =>
    LET o == NextTok(St)
        n == Step(St)
        pend == Pending(St)
    IN /\ l.peek # Nil => pc \in {"top", "dom", "rule"}
       /\ o.l.peek = Nil
       /\ l.peek # Nil => (o.st = "tok" /\ o.tok = l.peek[1] /\ o.rest = stream)
       /\ o.st = "tok" =>
            /\ o.tok = FirstOf(pend)
            /\ IF pc \in SemiPlaces /\ o.tok.typ # tokenSemicolon
                 THEN n.l.peek = Ptr(o.tok) /\ Pending(n) = pend
                 ELSE n.l.peek = Nil /\ Pending(n) = Rest(pend)

C17_Witness ==
  /\ pc = "rule" /\ l.peek = Ptr(token(tokenRBrace, <<>>))
  /\ rule # EmptyMap
  /\ Pending(St) = <<token(tokenRBrace, <<>>), token(tokenRBrace, <<>>)>>

LoopHeads == {"top", "dom", "rule"}

\* a step of the parser gets on: its call of next() reads at least one rune
\* (now, or before it blocked in a read it now resumes), or takes the token
\* out of the peek slot, or has met the end of the input, with which the
\* call returns now or at the loop head the token is pushed back to
GetsOn(s) ==
  LET o == NextTok(s)
      n == Step(s)
  IN /\ \/ Len(n.stream) < Len(s.stream)
        \/ s.l.at # "idle"
        \/ s.l.peek # Nil /\ n.l.peek = Nil
        \/ /\ o.st = "tok" /\ o.tok.typ = tokenEOF
           /\ \/ n.pc = "parsed"
              \/ n.pc \in LoopHeads /\ n.l.peek = Ptr(o.tok)
     /\ s.l.peek # Nil => (n.l.peek = Nil /\ n.pc \notin LoopHeads)

\* C18: on a finite input the call returns, with a result or an error; on
\* the way every step of the parser gets on, and a pushed-back token is
\* taken at the loop head without the loop coming round to it again.
C18_Termination ==
  /\ [](Ready(St) => GetsOn(St))
  /\ <>(~Running(St))

C18_Witness ==
  /\ pc = "parsed" /\ closed /\ stream = <<>>
  /\ ret.err = NoErr /\ ret.domains # Ptr(EmptyMap)

====
